---- MODULE Spec2Model ----
(***************************************************************************)
(* A model of json_to_csv_app.py: the flattener flatten_json, the          *)
(* converter json_to_csv and the Streamlit script main.                    *)
(*                                                                         *)
(* Python values are modelled as follows.                                  *)
(*   - a parsed JSON value is a record [t, v]: t is its kind, v its        *)
(*     payload (a list's elements, an object's <<key, value>> pairs in     *)
(*     insertion order, a scalar as it is written: "1", "true", "x");      *)
(*   - a Python dict is the sequence of its <<key, value>> pairs in        *)
(*     insertion order, with pairwise distinct keys;                       *)
(*   - a Python str holding JSON text is the sequence of its JSON tokens   *)
(*     (white space dropped), the empty str being <<>>;                    *)
(*   - a key or column name is a string.                                   *)
(***************************************************************************)
EXTENDS Integers, Sequences, FiniteSets, TLC

VARIABLES
    \* flatten_json(data, '', sep): its arguments and its return value
    data, sep, flat,
    \* json_to_csv(json_data, flatten_nested, normalize_data): its arguments,
    \* the DataFrame it returns (or None) and the message it gives st.error
    json_data, flatten_nested, normalize_data, df, error,
    \* main: the widgets, st.session_state, and what the last run did
    input_method, text_area, uploaded_file, session_state,
    clicked, json_input, current_json, offered,
    \* where the modelled call or script run stands
    pc

vars == <<data, sep, flat, json_data, flatten_nested, normalize_data, df, error,
          input_method, text_area, uploaded_file, session_state,
          clicked, json_input, current_json, offered, pc>>

(***************************************************************************)
(* Bounds of the model.                                                    *)
(***************************************************************************)
\* the largest number of nodes (scalars, arrays, objects) of a parsed document
MaxNodes == 4
\* the largest number of tokens of a JSON text given to json_to_csv
MaxTextLen == 4

(***************************************************************************)
(* Parsed JSON values.                                                     *)
(***************************************************************************)
Null == [t |-> "null", v |-> "null"]
Bool(w) == [t |-> "bool", v |-> w]
Num(n) == [t |-> "num", v |-> n]
Str(s) == [t |-> "str", v |-> s]
List(elems) == [t |-> "list", v |-> elems]
Dict(pairs) == [t |-> "dict", v |-> pairs]

IsDict(x) == x.t = "dict"
IsList(x) == x.t = "list"
IsScalar(x) == x.t \in {"null", "bool", "num", "str"}

\* the field names and the scalars the bounded documents are built from
Keys == {"a", "b", "a_b"}
Scalars == {Null, Num("1"), Str("x")}
Separators == {"_", "."}

Range(s) == {s[i] : i \in 1..Len(s)}
Injective(s) == \A i, j \in 1..Len(s) : s[i] = s[j] => i = j

RECURSIVE Zip(_, _)
Zip(ks, s) ==
    IF ks = <<>> THEN <<>>
    ELSE << <<Head(ks), Head(s)>> >> \o Zip(Tail(ks), Tail(s))

RECURSIVE SeqsOver(_, _)
SeqsOver(S, n) ==
    IF n = 0 THEN {<<>>} ELSE {Append(s, k) : s \in SeqsOver(S, n - 1), k \in S}

RECURSIVE KeySeqsUpTo(_)
KeySeqsUpTo(n) ==
    IF n = 0 THEN {<<>>}
    ELSE KeySeqsUpTo(n - 1) \cup {s \in SeqsOver(Keys, n) : Injective(s)}
\* the sequences of pairwise distinct field names
KeySeqs == KeySeqsUpTo(Cardinality(Keys))

RECURSIVE ValuesOfSize(_), SeqsOfSize(_), SeqsHeadUpTo(_, _)
\* the documents with exactly n nodes
ValuesOfSize(n) ==
    IF n = 1 THEN Scalars \cup {List(<<>>), Dict(<<>>)}
    ELSE LET seqs == SeqsOfSize(n - 1)
         IN  {List(s) : s \in seqs}
             \cup {Dict(Zip(p[1], p[2])) :
                     p \in {q \in KeySeqs \X seqs : Len(q[1]) = Len(q[2])}}
\* the sequences of documents with m nodes in all whose first has at most k
SeqsHeadUpTo(m, k) ==
    IF k = 0 THEN {}
    ELSE SeqsHeadUpTo(m, k - 1)
         \cup {<<x>> \o s : x \in ValuesOfSize(k), s \in SeqsOfSize(m - k)}
\* the sequences of documents with m nodes in all
SeqsOfSize(m) == IF m = 0 THEN {<<>>} ELSE SeqsHeadUpTo(m, m)

(***************************************************************************)
(* Python dicts: insertion-ordered <<key, value>> pairs.                   *)
(***************************************************************************)
DictKeys(d) == {d[i][1] : i \in 1..Len(d)}
DictHas(d, k) == \E i \in 1..Len(d) : d[i][1] = k
DictGet(d, k) == d[CHOOSE i \in 1..Len(d) : d[i][1] = k][2]

\* d[k] = v done as insert-if-absent: an existing key keeps its value
DictSetIfAbsent(d, k, v) ==
    IF DictHas(d, k) THEN d ELSE Append(d, <<k, v>>)

\* d[k] = v: an existing key keeps its place and takes the new value
DictSet(d, k, v) ==
    IF DictHas(d, k)
    THEN LET i == CHOOSE j \in 1..Len(d) : d[j][1] = k
         IN  SubSeq(d, 1, i - 1) \o << <<k, v>> >> \o SubSeq(d, i + 1, Len(d))
    ELSE Append(d, <<k, v>>)

RECURSIVE DictOfFirst(_, _)
DictOfFirst(items, n) ==
    IF n = 0 THEN <<>>
    ELSE DictSet(DictOfFirst(items, n - 1), items[n][1], items[n][2])

\* dict(items)
DictOf(items) == DictOfFirst(items, Len(items))

(***************************************************************************)
(* flatten_json                                                            *)
(***************************************************************************)
\* f"{key}{sep}{i}"
IndexKey(key, s, i) == key \o s \o ToString(i)

\* new_key = f"{parent_key}{sep}{k}" if parent_key else k
NewKey(parent_key, s, k) ==
    IF parent_key # "" THEN parent_key \o s \o k ELSE k

RECURSIVE flatten_json(_, _, _), DictLoop(_, _, _, _), InnerListLoop(_, _, _, _),
          ListLoop(_, _, _, _)

\* the items appended by the first n turns of "for i, item in enumerate(v)"
InnerListLoop(v, n, new_key, s) ==
    IF n = 0 THEN <<>>
    ELSE LET item == v[n]
             i == n - 1
         IN  InnerListLoop(v, n - 1, new_key, s) \o
             (IF IsDict(item)
              THEN flatten_json(item, IndexKey(new_key, s, i), s)
              ELSE << <<IndexKey(new_key, s, i), item>> >>)

\* the items appended by the first n turns of "for k, v in data.items()"
DictLoop(d, n, parent_key, s) ==
    IF n = 0 THEN <<>>
    ELSE LET k == d[n][1]
             v == d[n][2]
             new_key == NewKey(parent_key, s, k)
         IN  DictLoop(d, n - 1, parent_key, s) \o
             (IF IsDict(v) THEN flatten_json(v, new_key, s)
              ELSE IF IsList(v) THEN InnerListLoop(v.v, Len(v.v), new_key, s)
              ELSE << <<new_key, v>> >>)

\* the items appended by the first n turns of "for i, item in enumerate(data)"
ListLoop(l, n, parent_key, s) ==
    IF n = 0 THEN <<>>
    ELSE LET item == l[n]
             i == n - 1
         IN  ListLoop(l, n - 1, parent_key, s) \o
             (IF IsDict(item)
              THEN flatten_json(item, IndexKey(parent_key, s, i), s)
              ELSE << <<IndexKey(parent_key, s, i), item>> >>)

\* flatten_json(data, parent_key, sep): the dict it returns
flatten_json(x, parent_key, s) ==
    DictOf(IF IsDict(x) THEN DictLoop(x.v, Len(x.v), parent_key, s)
           ELSE IF IsList(x) THEN ListLoop(x.v, Len(x.v), parent_key, s)
           ELSE << <<parent_key, x>> >>)

(***************************************************************************)
(* JSON text: a Python str is the sequence of its tokens.                  *)
(***************************************************************************)
Punct(c) == [k |-> "punct", v |-> c]
TString(str) == [k |-> "string", v |-> str]
TNumber(n) == [k |-> "number", v |-> n]
TLiteral(w) == [k |-> "literal", v |-> w]

IsPunct(tok, c) == tok.k = "punct" /\ tok.v = c
IsScalarToken(tok) == tok.k \in {"string", "number", "literal"}

\* the value a scalar token denotes
ScalarOf(tok) ==
    IF tok.k = "string" THEN Str(tok.v)
    ELSE IF tok.k = "number" THEN Num(tok.v)
    ELSE IF tok.v = "null" THEN Null
    ELSE Bool(tok.v)

\* json.dumps: the text of a parsed value
RECURSIVE Dumps(_), DumpsElements(_, _), DumpsMembers(_, _)
Dumps(x) ==
    IF IsDict(x)
    THEN <<Punct("{")>> \o DumpsMembers(x.v, Len(x.v)) \o <<Punct("}")>>
    ELSE IF IsList(x)
    THEN <<Punct("[")>> \o DumpsElements(x.v, Len(x.v)) \o <<Punct("]")>>
    ELSE IF x.t = "str" THEN <<TString(x.v)>>
    ELSE IF x.t = "num" THEN <<TNumber(x.v)>>
    ELSE IF x.t = "null" THEN <<TLiteral("null")>>
    ELSE <<TLiteral(x.v)>>
DumpsElements(l, n) ==
    IF n = 0 THEN <<>>
    ELSE DumpsElements(l, n - 1)
         \o (IF n > 1 THEN <<Punct(",")>> ELSE <<>>) \o Dumps(l[n])
DumpsMembers(d, n) ==
    IF n = 0 THEN <<>>
    ELSE DumpsMembers(d, n - 1)
         \o (IF n > 1 THEN <<Punct(",")>> ELSE <<>>)
         \o <<TString(d[n][1]), Punct(":")>> \o Dumps(d[n][2])

\* json.loads, as the decoder scans: a result is [ok, val, pos] with pos the
\* place after the value, or [ok, msg, pos] with the JSONDecodeError's message
\* and place
Parsed(x, pos) == [ok |-> TRUE, val |-> x, pos |-> pos]
DecodeError(msg, pos) == [ok |-> FALSE, msg |-> msg, pos |-> pos]

RECURSIVE ScanOnce(_, _), JSONObject(_, _, _), JSONArray(_, _, _)
\* scan_once(s, idx)
ScanOnce(toks, i) ==
    IF i > Len(toks) THEN DecodeError("Expecting value", i)
    ELSE IF IsScalarToken(toks[i]) THEN Parsed(ScalarOf(toks[i]), i + 1)
    ELSE IF IsPunct(toks[i], "{") THEN
        IF i + 1 <= Len(toks) /\ IsPunct(toks[i + 1], "}")
        THEN Parsed(Dict(<<>>), i + 2)
        ELSE JSONObject(toks, i + 1, <<>>)
    ELSE IF IsPunct(toks[i], "[") THEN
        IF i + 1 <= Len(toks) /\ IsPunct(toks[i + 1], "]")
        THEN Parsed(List(<<>>), i + 2)
        ELSE JSONArray(toks, i + 1, <<>>)
    ELSE DecodeError("Expecting value", i)
\* JSONObject's loop, at the place where a member's name is due
JSONObject(toks, i, pairs) ==
    IF i > Len(toks) \/ toks[i].k # "string"
    THEN DecodeError("Expecting property name enclosed in double quotes", i)
    ELSE IF i + 1 > Len(toks) \/ ~IsPunct(toks[i + 1], ":")
    THEN DecodeError("Expecting ':' delimiter", i + 1)
    ELSE LET value == ScanOnce(toks, i + 2)
         IN  IF ~value.ok THEN value
             ELSE LET more == Append(pairs, <<toks[i].v, value.val>>)
                      j == value.pos
                  IN  IF j <= Len(toks) /\ IsPunct(toks[j], "}")
                      THEN Parsed(Dict(DictOf(more)), j + 1)
                      ELSE IF j <= Len(toks) /\ IsPunct(toks[j], ",")
                      THEN JSONObject(toks, j + 1, more)
                      ELSE DecodeError("Expecting ',' delimiter", j)
\* JSONArray's loop, at the place where an element is due
JSONArray(toks, i, values) ==
    LET value == ScanOnce(toks, i)
    IN  IF ~value.ok THEN value
        ELSE LET more == Append(values, value.val)
                 j == value.pos
             IN  IF j <= Len(toks) /\ IsPunct(toks[j], "]")
                 THEN Parsed(List(more), j + 1)
                 ELSE IF j <= Len(toks) /\ IsPunct(toks[j], ",")
                 THEN JSONArray(toks, j + 1, more)
                 ELSE DecodeError("Expecting ',' delimiter", j)

\* json.loads(s): the whole text must be one value
JsonLoads(toks) ==
    LET r == ScanOnce(toks, 1)
    IN  IF r.ok /\ r.pos # Len(toks) + 1 THEN DecodeError("Extra data", r.pos)
        ELSE r

(***************************************************************************)
(* pandas: a DataFrame is [columns, rows], the column names in order and   *)
(* the rows in order, each row the sequence of its cells in column order.  *)
(***************************************************************************)
\* the cell of a row that has no value for a column
NaN == [t |-> "nan", v |-> "nan"]
None == [t |-> "None", v |-> "None"]

Table(columns, rows) == [columns |-> columns, rows |-> rows]

RECURSIVE UnionOfKeys(_, _)
\* the keys of the first n records, each once, in the order first seen
UnionOfKeys(records, n) ==
    IF n = 0 THEN <<>>
    ELSE LET seen == UnionOfKeys(records, n - 1)
         IN  seen \o SelectSeq([i \in 1..Len(records[n]) |-> records[n][i][1]],
                               LAMBDA k : k \notin Range(seen))

\* pd.DataFrame(records) for a list of dicts: a column per key, a row per dict
DataFrameOfRecords(records) ==
    LET columns == UnionOfKeys(records, Len(records))
    IN  Table(columns,
              [n \in 1..Len(records) |->
                  [c \in 1..Len(columns) |->
                      IF DictHas(records[n], columns[c])
                      THEN DictGet(records[n], columns[c]) ELSE NaN]])

\* pd.DataFrame({"value": [data]})
DataFrameOfValue(x) == Table(<<"value">>, << <<x>> >>)

\* pd.DataFrame(data) for a list of scalars: one column, named 0
DataFrameOfColumn(l) == Table(<<"0">>, [n \in 1..Len(l) |-> <<l[n]>>])

RECURSIVE NormaliseJson(_, _, _, _)
\* pandas' _normalise_json: the entries of nested dicts, under dotted keys
NormaliseJson(d, n, key_string, normalized) ==
    IF n = 0 THEN normalized
    ELSE LET before == NormaliseJson(d, n - 1, key_string, normalized)
             new_key == IF key_string = "" THEN d[n][1]
                        ELSE key_string \o "." \o d[n][1]
         IN  IF IsDict(d[n][2])
             THEN NormaliseJson(d[n][2].v, Len(d[n][2].v), new_key, before)
             ELSE DictSet(before, new_key, d[n][2])

\* pandas' _normalise_json_ordered: the fields that hold no dict first, then
\* the nested ones
NormaliseJsonOrdered(d) ==
    LET top == SelectSeq(d, LAMBDA p : ~IsDict(p[2]))
        nested == SelectSeq(d, LAMBDA p : IsDict(p[2]))
    IN  NormaliseJson(nested, Len(nested), "", top)

AllDicts(l) == \A n \in 1..Len(l) : IsDict(l[n])

\* what a call returns: a DataFrame, or the exception it raises
Returns(table) == [raised |-> FALSE, df |-> table, what |-> "none"]
Raises(what) == [raised |-> TRUE, df |-> None, what |-> what]

\* pd.DataFrame(data) for a list.  All elements dicts: the table of the
\* records.  Otherwise pandas goes by the first element: after a dict it asks
\* every element for its keys and raises at the first that has none; a list
\* of scalars becomes one column; for any other list it depends on the
\* pandas and numpy at hand whether a table (DataFrameOfColumn stands for
\* it) or an exception comes back.
PdDataFrame(l) ==
    IF AllDicts(l) THEN {Returns(DataFrameOfRecords([n \in 1..Len(l) |-> l[n].v]))}
    ELSE IF IsDict(l[1]) THEN {Raises("object has no attribute 'keys'")}
    ELSE IF \A n \in 1..Len(l) : IsScalar(l[n]) THEN {Returns(DataFrameOfColumn(l))}
    ELSE {Returns(DataFrameOfColumn(l)), Raises("pandas could not build the table")}

\* pd.json_normalize(data) for a list.  All elements dicts: the table of the
\* normalised records.  Otherwise it depends on the pandas at hand whether a
\* table (DataFrameOfColumn stands for it) or an exception comes back.
PdJsonNormalize(l) ==
    IF AllDicts(l)
    THEN {Returns(DataFrameOfRecords([n \in 1..Len(l) |-> NormaliseJsonOrdered(l[n].v)]))}
    ELSE {Returns(DataFrameOfColumn(l)), Raises("pandas could not build the table")}

(***************************************************************************)
(* json_to_csv                                                             *)
(***************************************************************************)
\* the argument json_data: a str (JSON text) or an already parsed value
Text(toks) == [t |-> "text", v |-> toks]
IsText(x) == x.t = "text"

\* what st.error is given
InvalidJson(r) == [kind |-> "Invalid JSON format", diag |-> <<r.msg, r.pos>>]
ConversionError(what) == [kind |-> "Error converting JSON to CSV", diag |-> <<what, 0>>]

\* what json_to_csv does: the DataFrame it returns, or None with the message
\* it gave st.error
Outcome(table, err) == [df |-> table, error |-> err]

\* flattened_data, with the elements that are no dicts left out
FlattenedDataDictsOnly(l) ==
    LET dicts == SelectSeq(l, IsDict)
    IN  [n \in 1..Len(dicts) |-> flatten_json(dicts[n], "", "_")]

\* flattened_data after the loop "for item in data"
FlattenedData(l) ==
    [n \in 1..Len(l) |->
        IF IsDict(l[n]) THEN flatten_json(l[n], "", "_")
        ELSE << <<"value", l[n]>> >>]

\* the branch for a list
ConvertList(x, flatten, normalize) ==
    IF flatten THEN {Returns(DataFrameOfRecords(FlattenedData(x.v)))}
    ELSE IF normalize THEN PdJsonNormalize(x.v)
    ELSE PdDataFrame(x.v)

\* the branch for a dict, with normalize_data left unread
ConvertDictNeverNormalized(x, flatten, normalize) ==
    IF flatten THEN {Returns(DataFrameOfRecords(<<flatten_json(x, "", "_")>>))}
    ELSE PdDataFrame(<<x>>)

\* the branch for a dict
ConvertDict(x, flatten, normalize) ==
    IF flatten THEN {Returns(DataFrameOfRecords(<<flatten_json(x, "", "_")>>))}
    ELSE IF normalize THEN PdJsonNormalize(<<x>>)
    ELSE PdDataFrame(<<x>>)

\* the branch for a single value, with the column named after nothing
ConvertScalarUnnamed(x) == {Returns(Table(<<"0">>, << <<x>> >>))}

\* the branch for a single value
ConvertScalar(x) == {Returns(DataFrameOfValue(x))}

\* the handler of json.JSONDecodeError, reporting it as a conversion error
OnJSONDecodeErrorAsConversion(r) == Outcome(None, ConversionError(r.msg))

\* except json.JSONDecodeError
OnJSONDecodeError(r) == Outcome(None, InvalidJson(r))

\* the handler of any other exception, returning an empty table as well
OnExceptionWithTable(what) == Outcome(Table(<<>>, <<>>), ConversionError(what))

\* except Exception
OnException(what) == Outcome(None, ConversionError(what))

\* the outcomes of json_to_csv(json_data, flatten_nested, normalize_data)
json_to_csv(input, flatten, normalize) ==
    LET loaded == IF IsText(input) THEN JsonLoads(input.v)
                  ELSE Parsed(input, 0)
    IN  IF ~loaded.ok THEN {OnJSONDecodeError(loaded)}
        ELSE LET x == loaded.val
                 built == IF IsList(x) THEN ConvertList(x, flatten, normalize)
                          ELSE IF IsDict(x) THEN ConvertDict(x, flatten, normalize)
                          ELSE ConvertScalar(x)
             IN  {IF b.raised THEN OnException(b.what) ELSE Outcome(b.df, None) :
                    b \in built}

(***************************************************************************)
(* Placeholders for what a specification does not use.                     *)
(***************************************************************************)
NoText == <<>>

IdleConvert ==
    /\ json_data = None /\ flatten_nested = TRUE /\ normalize_data = TRUE
    /\ df = None /\ error = None
IdleUI ==
    /\ input_method = "Paste JSON" /\ text_area = NoText /\ uploaded_file = None
    /\ session_state = None /\ clicked = FALSE /\ json_input = NoText
    /\ current_json = None /\ offered = FALSE
IdleFlatten == sep = "_" /\ flat = <<>>

(***************************************************************************)
(* SpecFlatten: one call flatten_json(data, '', sep).                      *)
(***************************************************************************)
\* data is the document flatten_json is called with
InitFlatten ==
    /\ \E n \in 1..MaxNodes : data \in ValuesOfSize(n)
    /\ sep \in Separators
    /\ flat = <<>>
    /\ pc = "call"
    /\ IdleConvert /\ IdleUI

CallFlatten ==
    /\ pc = "call"
    /\ flat' = flatten_json(data, "", sep)
    /\ pc' = "done"
    /\ UNCHANGED <<data, sep, json_data, flatten_nested, normalize_data, df, error,
                   input_method, text_area, uploaded_file, session_state,
                   clicked, json_input, current_json, offered>>

NextFlatten == CallFlatten

SpecFlatten == InitFlatten /\ [][NextFlatten]_vars

(***************************************************************************)
(* SpecConvert: one call json_to_csv(json_data, flatten_nested,            *)
(* normalize_data).                                                        *)
(***************************************************************************)
\* the tokens the bounded texts are written with
Tokens ==
    {Punct("{"), Punct("}"), Punct("["), Punct("]"), Punct(","), Punct(":"),
     TString("a"), TNumber("1"), TLiteral("null"), TLiteral("true")}

\* json_to_csv is called with a short text, well formed or not, with the text
\* of a bounded document, or with a bounded document already parsed (a parsed
\* string is a str, hence a text); data keeps the document the argument was
\* made from, None for a short text
InitConvert ==
    /\ \/ /\ \E n \in 0..MaxTextLen :
                 json_data \in {Text(toks) : toks \in SeqsOver(Tokens, n)}
          /\ data = None
       \/ /\ \E n \in 1..MaxNodes : data \in ValuesOfSize(n)
          /\ json_data = Text(Dumps(data))
       \/ /\ \E n \in 1..MaxNodes : data \in {x \in ValuesOfSize(n) : x.t # "str"}
          /\ json_data = data
    /\ flatten_nested = TRUE /\ normalize_data = TRUE
    /\ df = None /\ error = None
    /\ pc = "call"
    /\ IdleFlatten /\ IdleUI

CallJsonToCsv ==
    /\ pc = "call"
    /\ \E flatten, normalize \in BOOLEAN :
        \E o \in json_to_csv(json_data, flatten, normalize) :
            /\ flatten_nested' = flatten
            /\ normalize_data' = normalize
            /\ df' = o.df
            /\ error' = o.error
    /\ pc' = "done"
    /\ UNCHANGED <<data, sep, flat, json_data,
                   input_method, text_area, uploaded_file, session_state,
                   clicked, json_input, current_json, offered>>

NextConvert == CallJsonToCsv

SpecConvert == InitConvert /\ [][NextConvert]_vars

(***************************************************************************)
(* The JSON grammar, as it generates texts: value, elements, members.      *)
(***************************************************************************)
ScalarTokens == {tok \in Tokens : IsScalarToken(tok)}
StringTokens == {tok \in Tokens : tok.k = "string"}

RECURSIVE WellFormed(_), Elements(_), Members(_)
\* the texts of n tokens that are a JSON value
WellFormed(n) ==
    IF n < 1 THEN {}
    ELSE IF n = 1 THEN {<<tok>> : tok \in ScalarTokens}
    ELSE {<<Punct("[")>> \o e \o <<Punct("]")>> :
             e \in (IF n = 2 THEN {<<>>} ELSE Elements(n - 2))}
         \cup {<<Punct("{")>> \o m \o <<Punct("}")>> :
                 m \in (IF n = 2 THEN {<<>>} ELSE Members(n - 2))}
\* the texts of n tokens that are values separated by commas
Elements(n) ==
    WellFormed(n) \cup
    UNION {{x \o <<Punct(",")>> \o e : x \in WellFormed(k), e \in Elements(n - k - 1)} :
           k \in 1..(n - 2)}
\* the texts of n tokens that are  name : value  pairs separated by commas
Members(n) ==
    {<<name, Punct(":")>> \o x : name \in StringTokens, x \in WellFormed(n - 2)}
    \cup
    UNION {{<<name, Punct(":")>> \o x \o <<Punct(",")>> \o m :
               name \in StringTokens, x \in WellFormed(k), m \in Members(n - k - 3)} :
           k \in 1..(n - 6)}

\* the well-formed texts among those of at most MaxTextLen tokens
ValidTexts == UNION {WellFormed(n) : n \in 1..MaxTextLen}

\* json.loads accepts the texts the grammar generates, and only those
LoadsFollowsGrammar ==
    (IsText(json_data) /\ data = None) =>
        (JsonLoads(json_data.v).ok <=> json_data.v \in ValidTexts)

(***************************************************************************)
(* Properties of json_to_csv.                                              *)
(***************************************************************************)
\* the record of an array's element: flatten_json(element) for an object,
\* {"value": element} for anything else
RecordOf(element) ==
    IF IsDict(element) THEN flatten_json(element, "", "_")
    ELSE << <<"value", element>> >>

\* C3: an array root converted with flatten_nested = true gives a row per
\* element, in element order, and a column per distinct key of the elements'
\* records; a row's cell holds the record's value, or nothing where the
\* record has no such key.
C3_RowPerElementColumnPerKey ==
    (pc = "done" /\ data # None /\ IsList(data) /\ flatten_nested) =>
        /\ error = None
        /\ df # None
        /\ Len(df.rows) = Len(data.v)
        /\ Len(df.columns)
              = Cardinality(UNION {DictKeys(RecordOf(data.v[n])) : n \in 1..Len(data.v)})
        /\ \A n \in 1..Len(data.v) : \A c \in 1..Len(df.columns) :
               df.rows[n][c] = IF DictHas(RecordOf(data.v[n]), df.columns[c])
                               THEN DictGet(RecordOf(data.v[n]), df.columns[c])
                               ELSE NaN

\* C3's case: an array with an element that flattens to no keys beside one
\* that has keys, converted with flattening
C3_Witness ==
    /\ pc = "done" /\ data # None /\ IsList(data) /\ flatten_nested
    /\ Len(data.v) = 2
    /\ \E n \in 1..2 : RecordOf(data.v[n]) = <<>>
    /\ df # None /\ Len(df.columns) = 1 /\ Len(df.rows) = 2

\* C4: an object root gives exactly one row, and what json_to_csv gives for
\* the one-element array holding the object, under the same flags.
C4_ObjectAsOneElementArray ==
    (pc = "done" /\ data # None /\ IsDict(data)) =>
        /\ error = None
        /\ df # None
        /\ Len(df.rows) = 1
        /\ \A wrapped \in {List(<<data>>), Text(Dumps(List(<<data>>)))} :
               json_to_csv(wrapped, flatten_nested, normalize_data)
                   = {Outcome(df, error)}

\* C4's case: an object holding an object, converted without flattening and
\* with normalisation
C4_Witness ==
    /\ pc = "done" /\ data # None /\ IsDict(data)
    /\ ~flatten_nested /\ normalize_data
    /\ df # None /\ df.columns = <<"a.b">> /\ Len(df.rows) = 1

\* C5: a scalar root gives one column named 'value' and one row holding the
\* scalar, whatever the flags.
C5_ScalarRoot ==
    /\ (pc = "done" /\ data # None /\ IsScalar(data)) =>
           error = None /\ df = Table(<<"value">>, << <<data>> >>)
    /\ (pc = "done" /\ IsText(json_data) /\ Len(json_data.v) = 1
           /\ IsScalarToken(json_data.v[1])) =>
           error = None /\ df = Table(<<"value">>, << <<ScalarOf(json_data.v[1])>> >>)

\* C5's case: the text  true  converted with both flags off
C5_Witness ==
    /\ pc = "done" /\ json_data = Text(<<TLiteral("true")>>)
    /\ ~flatten_nested /\ ~normalize_data
    /\ df # None /\ df.rows = << <<Bool("true")>> >>

RECURSIVE FieldLeaves(_, _, _), ElementLeaves(_, _, _), LeafPaths(_, _)
\* the scalar leaves of x below path, as <<path, leaf>> pairs; a path is the
\* sequence of its segments, a field name or an index in decimal
LeafPaths(x, path) ==
    IF IsDict(x) THEN FieldLeaves(x.v, Len(x.v), path)
    ELSE IF IsList(x) THEN ElementLeaves(x.v, Len(x.v), path)
    ELSE {<<path, x>>}
FieldLeaves(d, n, path) ==
    IF n = 0 THEN {}
    ELSE FieldLeaves(d, n - 1, path) \cup LeafPaths(d[n][2], Append(path, d[n][1]))
ElementLeaves(l, n, path) ==
    IF n = 0 THEN {}
    ELSE ElementLeaves(l, n - 1, path) \cup LeafPaths(l[n], Append(path, ToString(n - 1)))

RECURSIVE JoinPath(_, _)
\* the segments of a path joined with the separator
JoinPath(path, s) ==
    IF path = <<>> THEN ""
    ELSE IF Len(path) = 1 THEN path[1]
    ELSE path[1] \o s \o JoinPath(Tail(path), s)

\* no two leaves of the document have paths that join to one key
DistinctPathKeys(x, s) ==
    \A L1, L2 \in LeafPaths(x, <<>>) :
        JoinPath(L1[1], s) = JoinPath(L2[1], s) => L1[1] = L2[1]

\* C1: for an object root, every scalar leaf of the document is found in
\* flatten_json(root, '', sep) under its path joined with sep, mapped to the
\* leaf's value (stated for the documents whose path keys do not collide; C8
\* is about those that do).
C1_EveryLeafUnderItsPathKey ==
    (pc = "done" /\ IsDict(data) /\ DistinctPathKeys(data, sep)) =>
        \A L \in LeafPaths(data, <<>>) :
            /\ DictHas(flat, JoinPath(L[1], sep))
            /\ DictGet(flat, JoinPath(L[1], sep)) = L[2]

\* C2: every value of the mapping flatten_json returns is a scalar, never an
\* object or an array.
C2_ValuesAreScalars ==
    pc = "done" => \A i \in 1..Len(flat) : IsScalar(flat[i][2])

(***************************************************************************)
(* The order in which flatten_json meets the entries it stores: the        *)
(* <<key, value>> pairs of its traversal, before any dict is built.        *)
(***************************************************************************)
RECURSIVE VisitFields(_, _, _, _), VisitElements(_, _, _, _)
VisitElements(l, n, key, s) ==
    IF n = 0 THEN <<>>
    ELSE VisitElements(l, n - 1, key, s) \o
         (IF IsDict(l[n])
          THEN VisitFields(l[n].v, Len(l[n].v), IndexKey(key, s, n - 1), s)
          ELSE << <<IndexKey(key, s, n - 1), l[n]>> >>)
VisitFields(d, n, key, s) ==
    IF n = 0 THEN <<>>
    ELSE LET k == NewKey(key, s, d[n][1])
             v == d[n][2]
         IN  VisitFields(d, n - 1, key, s) \o
             (IF IsDict(v) THEN VisitFields(v.v, Len(v.v), k, s)
              ELSE IF IsList(v) THEN VisitElements(v.v, Len(v.v), k, s)
              ELSE << <<k, v>> >>)
Visit(x, key, s) ==
    IF IsDict(x) THEN VisitFields(x.v, Len(x.v), key, s)
    ELSE IF IsList(x) THEN VisitElements(x.v, Len(x.v), key, s)
    ELSE << <<key, x>> >>

\* C8: the mapping flatten_json returns holds every key of the traversal
\* once, mapped to the value of the entry met last under that key.
C8_LastWriteWins ==
    pc = "done" =>
        LET tr == Visit(data, "", sep)
        IN  /\ \A i, j \in 1..Len(flat) : flat[i][1] = flat[j][1] => i = j
            /\ DictKeys(flat) = {tr[i][1] : i \in 1..Len(tr)}
            /\ \A i \in 1..Len(tr) :
                   (\A j \in (i + 1)..Len(tr) : tr[j][1] # tr[i][1])
                       => DictGet(flat, tr[i][1]) = tr[i][2]

\* C8's case: two entries of one document's traversal share a key and differ
\* in value, as in {"a_b": 1, "a": {"b": "x"}} with separator '_'
C8_Witness ==
    /\ pc = "done"
    /\ LET tr == Visit(data, "", sep)
       IN  \E i, j \in 1..Len(tr) :
               i < j /\ tr[i][1] = tr[j][1] /\ tr[i][2] # tr[j][2]
    /\ \E i \in 1..Len(flat) : flat[i][1] = "a_b"

\* C9: for a top-level array and an empty prefix, a scalar element at index i
\* is stored under the decimal string of i, and a scalar field k of an object
\* element at index i under i + sep + k.
C9_TopLevelArrayKeys ==
    (pc = "done" /\ IsList(data)) =>
        \A n \in 1..Len(data.v) :
            LET item == data.v[n]
                i == ToString(n - 1)
            IN  /\ IsScalar(item) =>
                       DictHas(flat, i) /\ DictGet(flat, i) = item
                /\ IsDict(item) =>
                       \A m \in 1..Len(item.v) :
                           IsScalar(item.v[m][2]) =>
                               /\ DictHas(flat, i \o sep \o item.v[m][1])
                               /\ DictGet(flat, i \o sep \o item.v[m][1])
                                      = item.v[m][2]

(***************************************************************************)
(* main: the Streamlit script.  Streamlit runs it once when the page is    *)
(* opened and once more after every interaction with a widget; the         *)
(* widgets' values and st.session_state last from run to run.              *)
(***************************************************************************)
User(id, name, email, street, city, zipcode, hobbies) ==
    Dict(<< <<"id", Num(id)>>, <<"name", Str(name)>>, <<"email", Str(email)>>,
            <<"address", Dict(<< <<"street", Str(street)>>, <<"city", Str(city)>>,
                                 <<"zipcode", Str(zipcode)>> >>)>>,
            <<"hobbies", List(hobbies)>> >>)

\* example_data
ExampleData ==
    Dict(<< <<"users", List(<<
        User("1", "John Doe", "john@example.com", "123 Main St", "New York", "10001",
             <<Str("reading"), Str("swimming")>>),
        User("2", "Jane Smith", "jane@example.com", "456 Oak Ave", "Los Angeles", "90210",
             <<Str("hiking"), Str("cooking"), Str("photography")>>) >>)>> >>)

\* json.dumps(example_data, indent=2)
ExampleText == Dumps(ExampleData)

\* the texts a user pastes or uploads: nothing, an object, an array of
\* objects, an array of an object and a number, a string, the ill-formed
\* {"a": }  and the example document
UITexts ==
    {<<>>,
     Dumps(Dict(<< <<"a", Dict(<< <<"b", Num("1")>> >>)>> >>)),
     Dumps(List(<<Dict(<< <<"a", Num("1")>> >>), Dict(<< <<"b", Null>> >>)>>)),
     Dumps(List(<<Dict(<< <<"a", Num("1")>> >>), Num("1")>>)),
     <<TString("a")>>,
     <<Punct("{"), TString("a"), Punct(":"), Punct("}")>>,
     ExampleText}

PasteJSON == "Paste JSON"
UploadJSONFile == "Upload JSON file"

\* json_input after the input widgets
JsonInput(method, area, file) ==
    IF method = PasteJSON THEN area
    ELSE IF file # None THEN file.v
    ELSE <<>>

\* st.session_state.json_input after the button and the two tests that follow
\* it; session is None while the key is not set
SessionJsonInput(session, click, input) ==
    LET loaded == IF click THEN Text(ExampleText) ELSE session
        set == IF loaded = None THEN Text(input) ELSE loaded
    IN  IF set.v # input THEN Text(input) ELSE set

\* the output column: what is converted, what comes back, and whether the
\* table, the download button and the CSV preview are shown
Show(session, input, flatten, normalize) ==
    IF session.v # <<>> \/ input # <<>>
    THEN LET current == IF session.v # <<>> THEN session.v ELSE input
         IN  {[current_json |-> Text(current), df |-> o.df, error |-> o.error,
               offered |-> o.df # None] :
                 o \in json_to_csv(Text(current), flatten, normalize)}
    ELSE {[current_json |-> None, df |-> None, error |-> None, offered |-> FALSE]}

\* one run of main with the widgets as given
Run(method, area, file, flatten, normalize, click) ==
    LET input == JsonInput(method, area, file)
        session == SessionJsonInput(session_state, click, input)
    IN  /\ input_method' = method
        /\ text_area' = area
        /\ uploaded_file' = file
        /\ flatten_nested' = flatten
        /\ normalize_data' = normalize
        /\ clicked' = click
        /\ json_input' = input
        /\ session_state' = session
        /\ \E shown \in Show(session, input, flatten, normalize) :
               /\ current_json' = shown.current_json
               /\ df' = shown.df
               /\ error' = shown.error
               /\ offered' = shown.offered
        /\ pc' = "idle"
        /\ UNCHANGED <<data, sep, flat, json_data>>

\* a new session: the widgets at their defaults, no key in st.session_state
Init ==
    /\ input_method = PasteJSON /\ text_area = <<>> /\ uploaded_file = None
    /\ flatten_nested = TRUE /\ normalize_data = TRUE
    /\ session_state = None
    /\ clicked = FALSE /\ json_input = <<>> /\ current_json = None
    /\ df = None /\ error = None /\ offered = FALSE
    /\ pc = "new"
    /\ data = None /\ json_data = None /\ IdleFlatten

\* the page is opened: the first run
OpenPage ==
    /\ pc = "new"
    /\ Run(input_method, text_area, uploaded_file, flatten_nested, normalize_data, FALSE)

\* the user changes the text area
Paste ==
    /\ pc = "idle" /\ input_method = PasteJSON
    /\ \E toks \in UITexts \ {text_area} :
           Run(input_method, toks, uploaded_file, flatten_nested, normalize_data, FALSE)

\* the user uploads a file, or removes the one uploaded
Upload ==
    /\ pc = "idle" /\ input_method = UploadJSONFile
    /\ \E file \in ({Text(toks) : toks \in UITexts} \cup {None}) \ {uploaded_file} :
           Run(input_method, text_area, file, flatten_nested, normalize_data, FALSE)

\* the user picks the other input method; the widget no longer drawn loses
\* its value
ChooseInputMethod ==
    /\ pc = "idle"
    /\ IF input_method = PasteJSON
       THEN Run(UploadJSONFile, <<>>, None, flatten_nested, normalize_data, FALSE)
       ELSE Run(PasteJSON, <<>>, None, flatten_nested, normalize_data, FALSE)

ToggleFlatten ==
    /\ pc = "idle"
    /\ Run(input_method, text_area, uploaded_file, ~flatten_nested, normalize_data, FALSE)

ToggleNormalize ==
    /\ pc = "idle"
    /\ Run(input_method, text_area, uploaded_file, flatten_nested, ~normalize_data, FALSE)

\* the user presses "Load Example Data"
LoadExampleData ==
    /\ pc = "idle"
    /\ Run(input_method, text_area, uploaded_file, flatten_nested, normalize_data, TRUE)

Next ==
    \/ OpenPage
    \/ Paste
    \/ Upload
    \/ ChooseInputMethod
    \/ ToggleFlatten
    \/ ToggleNormalize
    \/ LoadExampleData

Spec == Init /\ [][Next]_vars

\* C7: a conversion ends with a table and no message, or with a message and
\* no table; the table, the download and the preview are shown only when a
\* table came back, never after a message.
C7_TableOrMessage ==
    /\ current_json # None => \/ (df # None /\ error = None)
                              \/ (df = None /\ error # None)
    /\ current_json = None => (df = None /\ error = None)
    /\ offered => (current_json # None /\ df # None /\ error = None)

\* C7's case: a run that converts  [{"a": 1}, 1]  with both flags off, where
\* pandas raises and the message is reported
C7_Witness ==
    /\ pc = "idle" /\ current_json # None
    /\ ~flatten_nested /\ ~normalize_data
    /\ error # None /\ error.kind = "Error converting JSON to CSV"
    /\ df = None /\ ~offered

\* C10: what is converted is st.session_state.json_input, and in a run where
\* "Load Example Data" is pressed that is the example document.
C10_ExampleIsConverted ==
    /\ current_json # None => current_json = session_state
    /\ (pc = "idle" /\ clicked) =>
           /\ session_state = Text(ExampleText)
           /\ current_json = Text(ExampleText)

====
